---- MODULE Spec2Model ----
(***************************************************************************)
(* Model of extract_categories.py: load categories.json, select the root   *)
(* categories, filter every root recursively by name (extract_category),   *)
(* and print the filtered tree to product_categories.txt and to stdout.    *)
(*                                                                         *)
(* Python dicts are functions whose DOMAIN is the set of keys present, so  *)
(* an absent key is an absent field.  A raised exception is the value      *)
(* Raise(e); a normal result v is Ok(v).  Category names are ASCII         *)
(* transliterations of the Cyrillic originals.  A text line is the         *)
(* sequence of its pieces: one "-" per prefix character, then the name.    *)
(***************************************************************************)
EXTENDS Integers, Sequences, FiniteSets, TLC

VARIABLES file, out, pc, data, idx, result, ridx, console, err

vars == <<file, out, pc, data, idx, result, ridx, console, err>>

----------------------------------------------------------------------------
(* Program constants *)

EXCLUDE_CATEGORY_IDS ==
    {11372526, 11319371, 11378741, 11379406, 11256837, 62983, 7107, 69086,
     11213812}

EXCLUDE_NAMES ==
    {"Vse tovary kategorii", "Vse tovary razdela", "S Petelinkoi na uzhin",
     "Mandarinovaya skazka", "Idealno dlya zapekaniya", "Zalit kipyatkom",
     "Domashnyaya vypechka"}

ConfirmationLine == <<"", "Sohraneno v product_categories.txt">>

----------------------------------------------------------------------------
(* Python helpers *)

Has(d, k) == k \in DOMAIN d

Ok(v) == [ok |-> TRUE, val |-> v]

Raise(e) == [ok |-> FALSE, exc |-> e]

\* variant: cat.get("name"), a missing name becomes None
GetName_Default(cat) ==
    IF ~Has(cat, "name") THEN Ok("None") ELSE Ok(cat.name)

\* cat["name"]
GetName(cat) ==
    IF ~Has(cat, "name") THEN Raise("KeyError") ELSE Ok(cat.name)

\* variant: the children are read only when there are two or more
ChildrenTruthy_MoreThanOne(cat) ==
    Has(cat, "children") /\ Len(cat.children) > 1

\* cat.get("children") is truthy: the key is present and the list is not empty
ChildrenTruthy(cat) == Has(cat, "children") /\ cat.children # <<>>

\* variant: no child is skipped by name
SkipChild_Never(child) == FALSE

\* variant: a child is skipped by id as well
SkipChild_ByIdToo(child) ==
    \/ GetName(child).val \in EXCLUDE_NAMES
    \/ (Has(child, "id") /\ child.id \in EXCLUDE_CATEGORY_IDS)

\* child["name"] in EXCLUDE_NAMES, once child["name"] has been read
SkipChild(child) == GetName(child).val \in EXCLUDE_NAMES

\* variant: every entry counts as a root
IsRoot_Always(cat) == TRUE

\* cat.get("parent_id") == 0
IsRoot(cat) == Has(cat, "parent_id") /\ cat.parent_id = 0

\* variant: the id is read only after the parent_id test has passed
SkipById_RootsOnly(cat) ==
    IF ~(Has(cat, "parent_id") /\ cat.parent_id = 0) THEN Ok(TRUE)
    ELSE IF ~Has(cat, "id") THEN Raise("KeyError")
    ELSE Ok(cat.id \in EXCLUDE_CATEGORY_IDS)

\* cat["id"] in EXCLUDE_CATEGORY_IDS, evaluated for every entry of the loop
SkipById(cat) ==
    IF ~Has(cat, "id") THEN Raise("KeyError")
    ELSE Ok(cat.id \in EXCLUDE_CATEGORY_IDS)

\* variant: lst.insert(0, x)
ListAppend_Front(lst, x) == <<x>> \o lst

\* lst.append(x)
ListAppend(lst, x) == Append(lst, x)

\* variant: result["children"] = children, also when children is empty
AttachChildren_Always(res, children) ==
    [name |-> res.name, children |-> children]

\* if children: result["children"] = children
AttachChildren(res, children) ==
    IF children # <<>> THEN [name |-> res.name, children |-> children]
    ELSE res

RECURSIVE extract_category(_)
RECURSIVE ExtractChildren(_, _)

\* the loop over cat["children"]; acc is the list `children` built so far
ExtractChildren(cs, acc) ==
    IF cs = <<>> THEN Ok(acc)
    ELSE LET child == Head(cs) IN
         IF ~GetName(child).ok THEN GetName(child)
         ELSE IF SkipChild(child) THEN ExtractChildren(Tail(cs), acc)
         ELSE LET r == extract_category(child) IN
              IF ~r.ok THEN r
              ELSE ExtractChildren(Tail(cs), ListAppend(acc, r.val))

extract_category(cat) ==
    IF ~GetName(cat).ok THEN GetName(cat)
    ELSE LET res == [name |-> GetName(cat).val] IN
         IF ChildrenTruthy(cat)
         THEN LET r == ExtractChildren(cat.children, <<>>) IN
              IF ~r.ok THEN r ELSE Ok(AttachChildren(res, r.val))
         ELSE Ok(res)

\* variant: prefix = "-" * level
Prefix_Level(level) == [k \in 1..level |-> "-"]

\* prefix = "-" * (level + 1)
Prefix(level) == [k \in 1..(level + 1) |-> "-"]

\* line = f"{prefix}{cat['name']}"
Line(prefix, cat) == prefix \o <<cat.name>>

RECURSIVE print_tree(_, _)

\* the lines print_tree writes for the list cats at the given level
print_tree(cats, level) ==
    IF cats = <<>> THEN <<>>
    ELSE LET cat == Head(cats) IN
         <<Line(Prefix(level), cat)>>
         \o (IF Has(cat, "children") THEN print_tree(cat.children, level + 1)
             ELSE <<>>)
         \o print_tree(Tail(cats), level)

----------------------------------------------------------------------------
(* Input documents *)

MaxNodes == 3

TopAttrs ==
    {[name |-> "Fruits", id |-> 1, parent_id |-> 0],
     [name |-> "Apples", id |-> 2, parent_id |-> 0],
     [name |-> "Vse tovary kategorii", id |-> 3, parent_id |-> 0],
     [name |-> "Fruits", id |-> 7107, parent_id |-> 0],
     [name |-> "Apples", id |-> 4, parent_id |-> 5],
     [name |-> "Apples", parent_id |-> 5],
     [id |-> 1, parent_id |-> 0]}

NestedAttrs ==
    {[name |-> "Fruits"],
     [name |-> "Apples", id |-> 7107, parent_id |-> 1],
     [name |-> "Vse tovary kategorii"],
     [id |-> 6]}

\* the attributes that also occur with an empty children list
EmptyListAttrs ==
    {[name |-> "Fruits", id |-> 1, parent_id |-> 0], [name |-> "Fruits"]}

RECURSIVE ForestsOf(_, _)

\* the nodes with attributes from attrs and exactly n nodes in all
TreesOf(n, attrs) ==
    IF n = 1
    THEN attrs \cup { a @@ [children |-> <<>>] : a \in attrs \cap EmptyListAttrs }
    ELSE { a @@ [children |-> f] :
             a \in attrs, f \in ForestsOf(n - 1, NestedAttrs) }

\* the lists of trees with exactly n nodes in all
ForestsOf(n, attrs) ==
    IF n = 0 THEN { <<>> }
    ELSE UNION { { <<t>> \o f : t \in TreesOf(k, attrs),
                                f \in ForestsOf(n - k, attrs) } : k \in 1..n }

\* the lists of trees with at most n nodes in all
Forests(n, attrs) == UNION { ForestsOf(k, attrs) : k \in 0..n }

Files ==
    { [kind |-> "missing"], [kind |-> "invalid"],
      [kind |-> "json", value |-> [version |-> 1]] }
    \cup { [kind |-> "json", value |-> [categories |-> f]] :
             f \in Forests(MaxNodes, TopAttrs) }

NoFile == [exists |-> FALSE, open |-> FALSE, lines |-> <<>>]

OldFile == [exists |-> TRUE, open |-> FALSE, lines |-> << <<"old">> >>]

----------------------------------------------------------------------------
(* The program *)

Init ==
    /\ file \in Files
    /\ out \in {NoFile, OldFile}
    /\ pc = "start"
    /\ data = [loaded |-> FALSE]
    /\ idx = 0
    /\ result = <<>>
    /\ ridx = 0
    /\ console = <<>>
    /\ err = "none"

Fail(e) ==
    /\ pc' = "error"
    /\ err' = e

\* with open("categories.json") as f: data = json.load(f)
main_load ==
    /\ pc = "start"
    /\ IF file.kind = "missing"
       THEN Fail("FileNotFoundError") /\ UNCHANGED data
       ELSE IF file.kind = "invalid"
       THEN Fail("JSONDecodeError") /\ UNCHANGED data
       ELSE /\ data' = file.value
            /\ pc' = "loaded"
            /\ UNCHANGED err
    /\ UNCHANGED <<file, out, idx, result, ridx, console>>

\* result = []; for cat in data["categories"]
main_begin ==
    /\ pc = "loaded"
    /\ IF ~Has(data, "categories")
       THEN Fail("KeyError") /\ UNCHANGED <<idx, result>>
       ELSE /\ result' = <<>>
            /\ idx' = 1
            /\ pc' = "loop"
            /\ UNCHANGED err
    /\ UNCHANGED <<file, out, data, ridx, console>>

\* variant: the loop is left after its first iteration
LoopDone_Early == idx > 1 \/ idx > Len(data.categories)

\* the for loop over data["categories"] is exhausted
LoopDone == idx > Len(data.categories)

\* one iteration of the loop over data["categories"]
main_select ==
    /\ pc = "loop"
    /\ ~LoopDone
    /\ LET cat == data.categories[idx] IN
       IF ~SkipById(cat).ok
       THEN Fail(SkipById(cat).exc) /\ UNCHANGED <<idx, result>>
       ELSE IF SkipById(cat).val
       THEN idx' = idx + 1 /\ UNCHANGED <<pc, err, result>>
       ELSE IF IsRoot(cat)
       THEN LET r == extract_category(cat) IN
            IF ~r.ok
            THEN Fail(r.exc) /\ UNCHANGED <<idx, result>>
            ELSE /\ result' = ListAppend(result, r.val)
                 /\ idx' = idx + 1
                 /\ UNCHANGED <<pc, err>>
       ELSE idx' = idx + 1 /\ UNCHANGED <<pc, err, result>>
    /\ UNCHANGED <<file, out, data, ridx, console>>

\* with open("product_categories.txt", "w") as f
main_open ==
    /\ pc = "loop"
    /\ LoopDone
    /\ out' = [exists |-> TRUE, open |-> TRUE, lines |-> <<>>]
    /\ ridx' = 1
    /\ pc' = "render"
    /\ UNCHANGED <<file, data, idx, result, console, err>>

\* print_tree(result, file=f): one iteration of the loop at level 0
main_render ==
    /\ pc = "render"
    /\ ridx <= Len(result)
    /\ LET lines == print_tree(<<result[ridx]>>, 0) IN
       /\ out' = [out EXCEPT !.lines = @ \o lines]
       /\ console' = console \o lines
    /\ ridx' = ridx + 1
    /\ UNCHANGED <<file, pc, data, idx, result, err>>

\* the with block ends and the confirmation is printed
main_finish ==
    /\ pc = "render"
    /\ ridx > Len(result)
    /\ out' = [out EXCEPT !.open = FALSE]
    /\ console' = Append(console, ConfirmationLine)
    /\ pc' = "done"
    /\ UNCHANGED <<file, data, idx, result, ridx, err>>

Next ==
    \/ main_load
    \/ main_begin
    \/ main_select
    \/ main_open
    \/ main_render
    \/ main_finish

Spec == Init /\ [][Next]_vars

----------------------------------------------------------------------------
(* Vocabulary of the properties.  A node of a forest (a list of trees) is  *)
(* named by its path: the index of its root, then the index of each child  *)
(* on the way down.  Pre-order is the lexicographic order of the paths.    *)

HasCats == file.kind = "json" /\ Has(file.value, "categories")

Cats == file.value.categories

RECURSIVE PathsIn(_)

PathsIn(forest) ==
    UNION { { <<i>> } \cup
            (IF Has(forest[i], "children")
             THEN { <<i>> \o q : q \in PathsIn(forest[i].children) }
             ELSE {}) : i \in 1..Len(forest) }

RECURSIVE NodeAt(_, _)

NodeAt(forest, p) ==
    IF Len(p) = 1 THEN forest[p[1]]
    ELSE NodeAt(forest[p[1]].children, Tail(p))

\* p comes before q in pre-order
Before(p, q) ==
    \E i \in 1..Len(q) :
        /\ i <= Len(p) + 1
        /\ \A j \in 1..(i - 1) : p[j] = q[j]
        /\ (i = Len(p) + 1 \/ p[i] < q[i])

\* the position of p in the pre-order listing of the paths P
Rank(P, p) == Cardinality({ q \in P : Before(q, p) }) + 1

Dashes(n) == [k \in 1..n |-> "-"]

NameOfLine(line) == line[Len(line)]

\* a top-level entry that the specification selects as a root
Selected(cat) ==
    /\ Has(cat, "parent_id") /\ cat.parent_id = 0
    /\ Has(cat, "id") /\ cat.id \notin EXCLUDE_CATEGORY_IDS

NameExcluded(cat) == Has(cat, "name") /\ cat.name \in EXCLUDE_NAMES

\* the input node at p is kept: its root is selected and no node on the
\* way from the root's child down to p is excluded by name
Kept(cats, p) ==
    /\ Selected(cats[p[1]])
    /\ \A k \in 2..Len(p) : ~NameExcluded(NodeAt(cats, SubSeq(p, 1, k)))

KeptPaths(cats) == { p \in PathsIn(cats) : Kept(cats, p) }

\* where the kept input node at p is found in the filtered forest: every
\* index counts the kept siblings up to and including the node
OutPath(cats, p) ==
    [k \in 1..Len(p) |->
        Cardinality({ j \in 1..p[k] : Kept(cats, SubSeq(p, 1, k - 1) \o <<j>>) })]

\* the loop over the categories has ended: result is the filtered forest
Filtered == pc \in {"render", "done"}

NamesOf(forest) == [i \in 1..Len(forest) |-> forest[i].name]

----------------------------------------------------------------------------
(* C1 *)

\* C1 (as stated): no node whose name is in the name-exclusion set appears
\* anywhere in the output, the root level included.
C1_NoExcludedNameAnywhere ==
    /\ \A p \in PathsIn(result) : NodeAt(result, p).name \notin EXCLUDE_NAMES
    /\ \A k \in 1..Len(console) : NameOfLine(console[k]) \notin EXCLUDE_NAMES

\* C1 (amended): no node below the root level whose name is in the
\* name-exclusion set appears in the output, at any depth >= 1, and nothing
\* below such a node appears either: the nodes of the filtered forest are
\* exactly the kept input nodes.  Roots are not tested by name.
C1_NoExcludedNameBelowRoot ==
    /\ \A p \in PathsIn(result) :
           Len(p) >= 2 => NodeAt(result, p).name \notin EXCLUDE_NAMES
    /\ \A k \in 1..Len(console) :
           Len(console[k]) >= 3 =>
               NameOfLine(console[k]) \notin EXCLUDE_NAMES
    /\ Filtered =>
           PathsIn(result) = { OutPath(Cats, p) : p \in KeptPaths(Cats) }

\* a finished run whose input has a selected root with a child excluded by
\* name that has a child of its own
C1_Witness ==
    /\ pc = "done"
    /\ \E p \in PathsIn(Cats) :
           /\ Len(p) = 3
           /\ Selected(Cats[p[1]])
           /\ NameExcluded(NodeAt(Cats, SubSeq(p, 1, 2)))

----------------------------------------------------------------------------
(* C2 *)

----------------------------------------------------------------------------
(* C3 *)

\* C3: the roots built so far are exactly the entries read so far whose
\* parent_id is 0 and whose id is not in the id-exclusion set, each once
\* and in the order of the document; when the loop has ended this covers
\* the whole `categories` sequence.
C3_RootSelection ==
    pc \in {"loop", "render", "done"} =>
        LET n == IF Filtered THEN Len(Cats) ELSE idx - 1
            sel == SelectSeq(SubSeq(Cats, 1, n), Selected)
        IN  NamesOf(result) = NamesOf(sel)

\* a finished run over two selected roots with a non-root entry between them
C3_Witness ==
    /\ pc = "done"
    /\ Len(Cats) = 3
    /\ Selected(Cats[1]) /\ Selected(Cats[3])
    /\ Has(Cats[2], "id") /\ Cats[2].parent_id # 0
    /\ Cats[1].name # Cats[3].name

----------------------------------------------------------------------------
(* C4 *)

\* the kept input node at p has no kept child
NoKeptChild(cats, p) ==
    \A q \in KeptPaths(cats) :
        ~(Len(q) = Len(p) + 1 /\ SubSeq(q, 1, Len(p)) = p)

\* C4: a node of the filtered forest has no `children` or a non-empty one;
\* a kept node without kept children (none in the input, an empty list, or
\* all removed by name) becomes a node with a name only and is printed as
\* one line that no deeper line follows.
C4_ChildrenNonEmpty ==
    /\ \A p \in PathsIn(result) :
           Has(NodeAt(result, p), "children")
               => NodeAt(result, p).children # <<>>
    /\ Filtered =>
           \A p \in KeptPaths(Cats) :
               NoKeptChild(Cats, p) =>
                   /\ OutPath(Cats, p) \in PathsIn(result)
                   /\ NodeAt(result, OutPath(Cats, p))
                          = [name |-> NodeAt(Cats, p).name]
    /\ pc = "done" =>
           \A p \in KeptPaths(Cats) :
               NoKeptChild(Cats, p) =>
                   LET r == Rank(PathsIn(result), OutPath(Cats, p)) IN
                   /\ r \in 1..Len(out.lines)
                   /\ out.lines[r]
                          = Dashes(Len(p)) \o <<NodeAt(Cats, p).name>>
                   /\ r < Len(out.lines)
                          => Len(out.lines[r + 1]) <= Len(p) + 1

\* a finished run with a kept node all of whose children are removed by name
C4_Witness ==
    /\ pc = "done"
    /\ \E p \in KeptPaths(Cats) :
           /\ ChildrenTruthy(NodeAt(Cats, p))
           /\ NoKeptChild(Cats, p)

----------------------------------------------------------------------------
(* C5 *)

\* the descendants of p among the paths P
Below(P, p) ==
    { q \in P : Len(q) > Len(p) /\ SubSeq(q, 1, Len(p)) = p }

\* C5: the file holds one line per node of the filtered forest, in
\* pre-order; the line of a node at depth d is d + 1 dashes and the name;
\* the lines of its descendants follow it directly, all deeper than it,
\* and the line after them is not deeper.  The console shows the same lines.
C5_PreorderLines ==
    pc = "done" =>
        LET P == PathsIn(result) IN
        /\ Len(out.lines) = Cardinality(P)
        /\ \A p \in P :
               LET r == Rank(P, p)
                   d == Cardinality(Below(P, p))
               IN  /\ out.lines[r]
                          = Dashes(Len(p)) \o <<NodeAt(result, p).name>>
                   /\ \A k \in (r + 1)..(r + d) :
                          Len(out.lines[k]) > Len(p) + 1
                   /\ r + d < Len(out.lines)
                          => Len(out.lines[r + d + 1]) <= Len(p) + 1
        /\ console = out.lines \o <<ConfirmationLine>>

\* a finished run that printed a root with a child, then a second root
C5_Witness ==
    /\ pc = "done"
    /\ Len(result) = 2
    /\ Has(result[1], "children")
    /\ Len(out.lines) = 3

----------------------------------------------------------------------------
(* C6 *)

\* product_categories.txt is as it was before the run
Untouched == out \in {NoFile, OldFile}

\* C6: a run that ends in an error has not created, truncated or written
\* the output file and has printed nothing; the file is opened only when
\* the loop over the categories has ended and every root has been built.
C6_NoPartialOutput ==
    /\ pc = "error" => (Untouched /\ console = <<>>)
    /\ ~Untouched =>
           /\ HasCats
           /\ idx = Len(Cats) + 1
           /\ Len(result) =
                  Cardinality({ i \in 1..Len(Cats) : Selected(Cats[i]) })

\* the filter fails on a later entry when a root has already been built,
\* and an older output file exists
C6_Witness ==
    /\ pc = "error"
    /\ err = "KeyError"
    /\ idx >= 2
    /\ Len(result) >= 1
    /\ out = OldFile

----------------------------------------------------------------------------
(* C7 *)

\* the entries the filter reads the name of: the selected roots, and the
\* children of every kept node
Visited(cats) ==
    { p \in PathsIn(cats) :
        /\ Selected(cats[p[1]])
        /\ \A k \in 1..(Len(p) - 1) :
               LET a == NodeAt(cats, SubSeq(p, 1, k)) IN
               Has(a, "name") /\ (k >= 2 => a.name \notin EXCLUDE_NAMES) }

Nameless(cats, P) == \E p \in P : ~Has(NodeAt(cats, p), "name")

\* C7 (as stated): a document in which some entry, at the top level or
\* nested at any depth, lacks a name never gets as far as producing output.
C7_AnyMissingNameFails ==
    (HasCats /\ Nameless(Cats, PathsIn(Cats))) => pc \notin {"render", "done"}

\* C7 (amended): a document in which some entry that the filter reaches (a
\* selected root, or a child of a kept node) lacks a name never gets as far
\* as producing output: the run goes on until it ends in an error, with the
\* output file untouched and nothing printed.
C7_VisitedMissingNameFails ==
    (HasCats /\ Nameless(Cats, Visited(Cats))) =>
        /\ pc \notin {"render", "done"}
        /\ Untouched
        /\ console = <<>>
        /\ (pc = "error" \/ ENABLED Next)

\* a run ended by a nameless nested entry, every top-level entry having an id
C7_Witness ==
    /\ pc = "error"
    /\ err = "KeyError"
    /\ HasCats
    /\ \A i \in 1..Len(Cats) : Has(Cats[i], "id") /\ Has(Cats[i], "name")
    /\ \E p \in Visited(Cats) : Len(p) >= 2 /\ ~Has(NodeAt(Cats, p), "name")

----------------------------------------------------------------------------
(* C8 *)

AllNamed(cats) == ~Nameless(cats, PathsIn(cats))

\* the documents of C8: every entry has a name and a parent_id, the entries
\* with parent_id 0 have an id, all other entries and all nested nodes
\* have none
IdOnlyOnRoots(cats) ==
    /\ AllNamed(cats)
    /\ \A p \in PathsIn(cats) :
           LET n == NodeAt(cats, p) IN
           IF Len(p) = 1
           THEN /\ Has(n, "parent_id")
                /\ Has(n, "id") <=> n.parent_id = 0
           ELSE ~Has(n, "id")

\* C8 (as stated): such a document is processed without error.
C8_IdRequiredOnlyForRoots ==
    (HasCats /\ IdOnlyOnRoots(Cats)) => pc # "error"

\* C8 (amended): the id is required of every entry of the `categories`
\* sequence, whatever its parent_id, and of no nested node.  A document
\* whose entries all have a name and whose top-level entries all have an id
\* is processed without error, and a kept nested node without an id is in
\* the output; a document with a top-level entry without an id never gets
\* as far as producing output.
C8_IdRequiredForTopLevel ==
    HasCats =>
        /\ (AllNamed(Cats) /\ \A i \in 1..Len(Cats) : Has(Cats[i], "id"))
               => pc # "error"
        /\ (\E i \in 1..Len(Cats) : ~Has(Cats[i], "id"))
               => pc \notin {"render", "done"}
        /\ Filtered =>
               \A p \in KeptPaths(Cats) :
                   (Len(p) >= 2 /\ ~Has(NodeAt(Cats, p), "id"))
                       => OutPath(Cats, p) \in PathsIn(result)

\* a finished run over a document with an entry of non-zero parent_id and a
\* kept nested node that has no id
C8_Witness ==
    /\ pc = "done"
    /\ \E i \in 1..Len(Cats) : ~Selected(Cats[i]) /\ Cats[i].parent_id # 0
    /\ \E p \in KeptPaths(Cats) : Len(p) >= 2 /\ ~Has(NodeAt(Cats, p), "id")

----------------------------------------------------------------------------
(* C9 *)

Siblings(p, q) ==
    /\ Len(p) = Len(q)
    /\ SubSeq(p, 1, Len(p) - 1) = SubSeq(q, 1, Len(q) - 1)
    /\ p[Len(p)] < q[Len(q)]

\* C9: of two kept input nodes that are siblings (two roots, or two
\* children of one parent), the line of the earlier one comes before the
\* line of the later one in the file.
C9_OrderPreserved ==
    pc = "done" =>
        \A p, q \in KeptPaths(Cats) :
            Siblings(p, q) =>
                LET P == PathsIn(result)
                    rp == Rank(P, OutPath(Cats, p))
                    rq == Rank(P, OutPath(Cats, q))
                IN  /\ rp < rq
                    /\ rq <= Len(out.lines)
                    /\ out.lines[rp]
                           = Dashes(Len(p)) \o <<NodeAt(Cats, p).name>>
                    /\ out.lines[rq]
                           = Dashes(Len(q)) \o <<NodeAt(Cats, q).name>>

\* a finished run with two kept children of one parent under different names
C9_Witness ==
    /\ pc = "done"
    /\ \E p, q \in KeptPaths(Cats) :
           /\ Siblings(p, q)
           /\ Len(p) >= 2
           /\ NodeAt(Cats, p).name # NodeAt(Cats, q).name

----------------------------------------------------------------------------
(* C10 *)

HasParentZero(cat) == Has(cat, "parent_id") /\ cat.parent_id = 0

\* no entry with parent_id 0 has an excluded id, no node an excluded name
NoExclusions(cats) ==
    /\ \A i \in 1..Len(cats) :
           HasParentZero(cats[i]) =>
               (Has(cats[i], "id") /\ cats[i].id \notin EXCLUDE_CATEGORY_IDS)
    /\ \A p \in PathsIn(cats) : ~NameExcluded(NodeAt(cats, p))

\* C10: without exclusions the filtered forest has the nodes, the nesting
\* and the names of the input entries with parent_id 0 and their
\* descendants, and the file has one line for each of these nodes.
C10_RoundTrip ==
    (pc = "done" /\ NoExclusions(Cats)) =>
        LET roots == SelectSeq(Cats, HasParentZero) IN
        /\ PathsIn(result) = PathsIn(roots)
        /\ \A p \in PathsIn(roots) :
               NodeAt(result, p).name = NodeAt(roots, p).name
        /\ Len(out.lines) = Cardinality(PathsIn(roots))

\* a finished run without exclusions over a root with a grandchild
C10_Witness ==
    /\ pc = "done"
    /\ NoExclusions(Cats)
    /\ \E p \in PathsIn(SelectSeq(Cats, HasParentZero)) : Len(p) = 3

====
